---- MODULE Spec2Model ----
(***************************************************************************)
(* Model of server.js: a product catalogue (productos.json) and a sales    *)
(* ledger (ventas.json) served by Express handlers.  Every handler uses    *)
(* synchronous file I/O and contains no await, so Node runs it to          *)
(* completion before it dispatches the next request.                       *)
(*                                                                         *)
(* Units.  A price or amount is an integer number of thousandths (0.001),  *)
(* so that toFixed(2) is a real rounding to a multiple of 10.  A stock     *)
(* numeral sent by a client is an integer number of halves, so that        *)
(* Number.isInteger and parseInt are real tests and truncations.  Stored   *)
(* stocks and cart quantities are plain integers.  A text is a sequence    *)
(* of characters.  An optional body field is <<>> (undefined) or <<v>>.    *)
(*                                                                         *)
(* Not modelled: id_venta (uuid), fecha and id_usuario of a sale; request  *)
(* bodies whose fields have another JSON type than the documented one;     *)
(* and a storage failure in a handler other than POST /venta (its catch    *)
(* answers 500 and nothing has been written).                              *)
(***************************************************************************)
EXTENDS Integers, Sequences, FiniteSets, TLC

VARIABLES productos, ventas, res, nPut, pc, marco

vars == <<productos, ventas, res, nPut, pc, marco>>

\* ---------------------------------------------------------------- bounds
\* products created, sales recorded, lines of a cart, quantity of a line,
\* updates applied
MaxProductos == 2
MaxVentas == 1
MaxItems == 2
MaxCantidad == 2
MaxPut == 1
\* record-sale requests in flight at once, and the stock they compete for
NReq == 2
StockConc == 2

\* ---------------------------------------------------------------- inputs
\* POST /producto bodies
NombresPost == {<<>>, <<"a", " ">>}
PreciosPost == {-6, 16}
StocksPost == {-2, 3, 4}
\* PUT /producto bodies
NombresPut == {<<" ", "b">>}
PreciosPut == {26}
StocksPut == {-3, 0}
IdsIn == 0..MaxProductos
ItemsIn ==
    [id_producto : 1..MaxProductos, cantidad : 1..MaxCantidad]
    \cup {[id_producto |-> 0, cantidad |-> 1], [id_producto |-> 1, cantidad |-> 0]}
Carritos == UNION {[1..n -> ItemsIn] : n \in 0..MaxItems}
CarritosDeUno == [1..1 -> ItemsIn]
Fallas == {"ninguna", "leerProductos", "escribirProductos", "ventas"}
Opt(S) == {<<>>} \cup {<<x>> : x \in S}
ActivosIn == {0, 1}

\* --------------------------------------------------------- pure helpers
RECURSIVE TrimIzq(_)
TrimIzq(s) == IF s # <<>> /\ Head(s) = " " THEN TrimIzq(Tail(s)) ELSE s

RECURSIVE TrimDer(_)
TrimDer(s) ==
    IF s # <<>> /\ s[Len(s)] = " " THEN TrimDer(SubSeq(s, 1, Len(s) - 1)) ELSE s

\* String.prototype.trim
Trim(s) == TrimDer(TrimIzq(s))

\* parseFloat(x.toFixed(2)): the nearest multiple of 0.01; an exact tie goes
\* to the larger value.  (The inputs hold no tie: a tie's outcome depends on
\* the binary representation of the number.)
Round2(x) ==
    IF x >= 0 THEN ((x + 5) \div 10) * 10 ELSE -((((-x) + 4) \div 10) * 10)

\* Number.isInteger, on a numeral in halves
EsEntero(h) == h % 2 = 0

\* parseInt(stock, 10), on a numeral in halves: truncation toward zero
ParseInt(h) == IF h >= 0 THEN h \div 2 ELSE -((-h) \div 2)

RECURSIVE MaxDe(_)
MaxDe(S) ==
    IF S = {} THEN 0
    ELSE LET x == CHOOSE y \in S : TRUE
             m == MaxDe(S \ {x})
         IN IF S = {x} \/ x > m THEN x ELSE m

IdsDe(ps) == {ps[i].id_producto : i \in 1..Len(ps)}

\* NuevoId counting only the products still active
NuevoIdDeActivos(ps) ==
    IF Len(ps) > 0
    THEN MaxDe({ps[i].id_producto : i \in {j \in 1..Len(ps) : ps[j].activo}}) + 1
    ELSE 1

\* productos.length > 0 ? Math.max(...ids) + 1 : 1
NuevoId(ps) == IF Len(ps) > 0 THEN MaxDe(IdsDe(ps)) + 1 ELSE 1

\* Array.prototype.findIndex(p => p.id_producto === id), 0 for -1
RECURSIVE IndiceDesde(_, _, _)
IndiceDesde(ps, id, i) ==
    IF i > Len(ps) THEN 0
    ELSE IF ps[i].id_producto = id THEN i
    ELSE IndiceDesde(ps, id, i + 1)

FindIndex(ps, id) == IndiceDesde(ps, id, 1)

\* Array.prototype.find(p => p.id_producto === id && p.activo), 0 for undefined
RECURSIVE ActivoDesde(_, _, _)
ActivoDesde(ps, id, i) ==
    IF i > Len(ps) THEN 0
    ELSE IF ps[i].id_producto = id /\ ps[i].activo THEN i
    ELSE ActivoDesde(ps, id, i + 1)

\* FindActivo without the "&& p.activo" of the predicate
FindSinActivo(ps, id) == IndiceDesde(ps, id, 1)

FindActivo(ps, id) == ActivoDesde(ps, id, 1)

\* productos.filter(p => p.activo)
Activos(ps) == SelectSeq(ps, LAMBDA p : p.activo)

\* ------------------------------------------------------------ responses
Resp(op, status) ==
    [op |-> op, status |-> status, id |-> 0, n |-> 0, campos |-> {}, lista |-> <<>>]

RespId(op, status, id) == [Resp(op, status) EXCEPT !.id = id]

\* --------------------------------------------------------------- state
Init ==
    /\ productos = <<>>
    /\ ventas = <<>>
    /\ res = Resp("inicio", 0)
    /\ nPut = 0
    /\ pc = <<>>
    /\ marco = <<>>

\* GET /productos
GetProductos ==
    /\ res' = [Resp("GET /productos", 200) EXCEPT !.lista = Activos(productos)]
    /\ UNCHANGED <<productos, ventas, nPut, pc, marco>>

\* GET /ventas
GetVentas ==
    /\ res' = [Resp("GET /ventas", 200) EXCEPT !.lista = ventas]
    /\ UNCHANGED <<productos, ventas, nPut, pc, marco>>

\* POST /producto
NuevoProducto(ps, nombre, precio, stock) ==
    [id_producto |-> NuevoId(ps),
     nombre      |-> Trim(nombre),
     precio      |-> Round2(precio),
     activo      |-> TRUE,
     stock       |-> stock \div 2]

PostProducto(nombre, precio, stock) ==
    IF nombre = <<>> \/ precio < 0 \/ ~EsEntero(stock) \/ stock < 0
    THEN /\ res' = Resp("POST /producto", 400)
         /\ UNCHANGED <<productos, ventas, nPut, pc, marco>>
    ELSE /\ Len(productos) < MaxProductos
         /\ productos' = Append(productos, NuevoProducto(productos, nombre, precio, stock))
         /\ res' = RespId("POST /producto", 201, NuevoId(productos))
         /\ UNCHANGED <<ventas, nPut, pc, marco>>

\* PUT /producto: "Actualizar solo los campos recibidos"
\* Boolean(activo), on a JSON number
Boolean(v) == v # 0

CamposDe(nombre, precio, stock, activo) ==
    (IF nombre # <<>> THEN {"nombre"} ELSE {})
    \cup (IF precio # <<>> THEN {"precio"} ELSE {})
    \cup (IF stock # <<>> THEN {"stock"} ELSE {})
    \cup (IF activo # <<>> THEN {"activo"} ELSE {})

\* Actualizado without the test on activo: an absent activo coerces to false
ActualizadoSinTest(p, nombre, precio, stock, activo) ==
    [id_producto |-> p.id_producto,
     nombre      |-> IF nombre # <<>> THEN Trim(nombre[1]) ELSE p.nombre,
     precio      |-> IF precio # <<>> THEN Round2(precio[1]) ELSE p.precio,
     activo      |-> IF activo # <<>> THEN Boolean(activo[1]) ELSE FALSE,
     stock       |-> IF stock # <<>> THEN ParseInt(stock[1]) ELSE p.stock]

Actualizado(p, nombre, precio, stock, activo) ==
    [id_producto |-> p.id_producto,
     nombre      |-> IF nombre # <<>> THEN Trim(nombre[1]) ELSE p.nombre,
     precio      |-> IF precio # <<>> THEN Round2(precio[1]) ELSE p.precio,
     activo      |-> IF activo # <<>> THEN Boolean(activo[1]) ELSE p.activo,
     stock       |-> IF stock # <<>> THEN ParseInt(stock[1]) ELSE p.stock]

\* the handler's result: what it leaves in productos.json and what it answers
Put(ps, id, nombre, precio, stock, activo) ==
    LET idx == FindIndex(ps, id) IN
    IF id = 0
    THEN [productos |-> ps, res |-> Resp("PUT /producto", 400)]
    ELSE IF idx = 0
    THEN [productos |-> ps, res |-> RespId("PUT /producto", 404, id)]
    ELSE [productos |-> [ps EXCEPT ![idx] = Actualizado(ps[idx], nombre, precio, stock, activo)],
          res |-> [RespId("PUT /producto", 200, id) EXCEPT
                      !.campos = CamposDe(nombre, precio, stock, activo)]]

PutProducto(id, nombre, precio, stock, activo) ==
    \E o \in {Put(productos, id, nombre, precio, stock, activo)} :
    /\ o.res.status = 200 => nPut < MaxPut
    /\ productos' = o.productos
    /\ res' = o.res
    /\ nPut' = IF o.res.status = 200 THEN nPut + 1 ELSE nPut
    /\ UNCHANGED <<ventas, pc, marco>>

\* DELETE /producto: soft-delete
Desactivado(p) == [p EXCEPT !.activo = FALSE]

DeleteProducto(id) ==
    LET idx == FindIndex(productos, id) IN
    IF id = 0
    THEN /\ res' = Resp("DELETE /producto", 400)
         /\ UNCHANGED <<productos, ventas, nPut, pc, marco>>
    ELSE IF idx = 0
    THEN /\ res' = RespId("DELETE /producto", 404, id)
         /\ UNCHANGED <<productos, ventas, nPut, pc, marco>>
    ELSE /\ productos' = [productos EXCEPT ![idx] = Desactivado(productos[idx])]
         /\ res' = RespId("DELETE /producto", 200, id)
         /\ UNCHANGED <<ventas, nPut, pc, marco>>

\* POST /venta, step 1: "Validar payload"
Validar(items) ==
    /\ Len(items) > 0
    /\ \A i \in 1..Len(items) : items[i].id_producto # 0 /\ items[i].cantidad > 0

\* Linea with the quantity left out of the subtotal
LineaSinCantidad(p, cantidad) ==
    [id_producto     |-> p.id_producto,
     nombre          |-> p.nombre,
     cantidad        |-> cantidad,
     precio_unitario |-> p.precio,
     subtotal        |-> Round2(p.precio)]

\* one entry of itemsDetalle
Linea(p, cantidad) ==
    [id_producto     |-> p.id_producto,
     nombre          |-> p.nombre,
     cantidad        |-> cantidad,
     precio_unitario |-> p.precio,
     subtotal        |-> Round2(p.precio * cantidad)]

\* POST /venta, step 2: the loop over items, from item i on, itemsDetalle = det.
\* Ends 404 or 409 at the first item that fails, 200 when every item passed.
RECURSIVE VerificarDesde(_, _, _, _)
VerificarDesde(ps, items, i, det) ==
    IF i > Len(items)
    THEN [status |-> 200, id |-> 0, detalle |-> det]
    ELSE LET k == FindActivo(ps, items[i].id_producto) IN
         IF k = 0
         THEN [status |-> 404, id |-> items[i].id_producto, detalle |-> det]
         ELSE IF ps[k].stock < items[i].cantidad
         THEN [status |-> 409, id |-> items[i].id_producto, detalle |-> det]
         ELSE VerificarDesde(ps, items, i + 1, Append(det, Linea(ps[k], items[i].cantidad)))

Verificar(ps, items) == VerificarDesde(ps, items, 1, <<>>)

\* itemsDetalle.reduce((acc, i) => acc + i.subtotal, 0)
RECURSIVE SumaSubtotales(_)
SumaSubtotales(det) ==
    IF det = <<>> THEN 0 ELSE det[1].subtotal + SumaSubtotales(Tail(det))

\* POST /venta, step 3
Total(det) == Round2(SumaSubtotales(det))

\* POST /venta, step 4: productos[idx].stock -= item.cantidad, for each line
RECURSIVE Descontar(_, _)
Descontar(ps, det) ==
    IF det = <<>> THEN ps
    ELSE LET idx == FindIndex(ps, det[1].id_producto) IN
         Descontar([ps EXCEPT ![idx].stock = @ - det[1].cantidad], Tail(det))

\* POST /venta, step 5
NuevaVenta(det) == [items |-> det, total |-> Total(det)]

RespVenta(status, id, n) == [RespId("POST /venta", status, id) EXCEPT !.n = n]

\* Venta with one step changed, for the variants below: what a rejected check
\* leaves in productos.json, what a failed ledger write leaves there, and the
\* ledger a successful call writes
VentaVariante(ps, vs, items, falla, alRechazar, alFallar, alRegistrar) ==
    IF ~Validar(items)
    THEN [productos |-> ps, ventas |-> vs, res |-> RespVenta(400, 0, 0)]
    ELSE IF falla = "leerProductos"
    THEN [productos |-> ps, ventas |-> vs, res |-> RespVenta(500, 0, 0)]
    ELSE IF Verificar(ps, items).status # 200
    THEN [productos |-> alRechazar, ventas |-> vs,
          res |-> RespVenta(Verificar(ps, items).status, Verificar(ps, items).id,
                            Len(Verificar(ps, items).detalle))]
    ELSE IF falla = "escribirProductos"
    THEN [productos |-> ps, ventas |-> vs,
          res |-> RespVenta(500, 0, Len(Verificar(ps, items).detalle))]
    ELSE IF falla = "ventas"
    THEN [productos |-> alFallar, ventas |-> vs,
          res |-> RespVenta(500, 0, Len(Verificar(ps, items).detalle))]
    ELSE [productos |-> Descontar(ps, Verificar(ps, items).detalle),
          ventas |-> alRegistrar,
          res |-> RespVenta(201, 0, Len(Verificar(ps, items).detalle))]

\* stock is decremented item by item while the items are checked
VentaParcial(ps, vs, items, falla) ==
    VentaVariante(ps, vs, items, falla,
        Descontar(ps, Verificar(ps, items).detalle),
        Descontar(ps, Verificar(ps, items).detalle),
        Append(vs, NuevaVenta(Verificar(ps, items).detalle)))

\* the product write is undone when the ledger cannot be written
VentaConRollback(ps, vs, items, falla) ==
    VentaVariante(ps, vs, items, falla, ps, ps,
        Append(vs, NuevaVenta(Verificar(ps, items).detalle)))

\* the ledger is rewritten with the new sale alone
VentaSinHistorial(ps, vs, items, falla) ==
    VentaVariante(ps, vs, items, falla, ps,
        Descontar(ps, Verificar(ps, items).detalle),
        <<NuevaVenta(Verificar(ps, items).detalle)>>)

\* POST /venta: the whole handler's result, with the storage call that fails
\* (if any): what it leaves in productos.json and ventas.json, and its answer
Venta(ps, vs, items, falla) ==
    LET r == Verificar(ps, items) IN
    IF ~Validar(items)
    THEN [productos |-> ps, ventas |-> vs, res |-> RespVenta(400, 0, 0)]
    ELSE IF falla = "leerProductos"
    THEN [productos |-> ps, ventas |-> vs, res |-> RespVenta(500, 0, 0)]
    ELSE IF r.status # 200
    THEN [productos |-> ps, ventas |-> vs,
          res |-> RespVenta(r.status, r.id, Len(r.detalle))]
    ELSE IF falla = "escribirProductos"
    THEN [productos |-> ps, ventas |-> vs, res |-> RespVenta(500, 0, Len(r.detalle))]
    ELSE IF falla = "ventas"
    THEN [productos |-> Descontar(ps, r.detalle), ventas |-> vs,
          res |-> RespVenta(500, 0, Len(r.detalle))]
    ELSE [productos |-> Descontar(ps, r.detalle),
          ventas |-> Append(vs, NuevaVenta(r.detalle)),
          res |-> RespVenta(201, 0, Len(r.detalle))]

PostVenta(items, falla) ==
    \E o \in {Venta(productos, ventas, items, falla)} :
    /\ Len(o.ventas) <= MaxVentas
    /\ productos' = o.productos
    /\ ventas' = o.ventas
    /\ res' = o.res
    /\ UNCHANGED <<nPut, pc, marco>>

Next ==
    \/ GetProductos
    \/ GetVentas
    \/ \E n \in NombresPost, p \in PreciosPost, s \in StocksPost : PostProducto(n, p, s)
    \/ \E id \in IdsIn, n \in Opt(NombresPut), p \in Opt(PreciosPut),
          s \in Opt(StocksPut), a \in Opt(ActivosIn) : PutProducto(id, n, p, s, a)
    \/ \E id \in IdsIn : DeleteProducto(id)
    \/ \E items \in Carritos : PostVenta(items, "ninguna")
    \/ \E items \in Carritos : PostVenta(items, "ventas")
    \/ \E items \in CarritosDeUno, f \in {"leerProductos", "escribirProductos"} :
          PostVenta(items, f)

Spec == Init /\ [][Next]_vars

\* ------------------------------------------------------------------------
\* POST /venta step by step, for NReq requests of one cart line each that the
\* server has accepted at the same time.  The handler is declared async but awaits nothing, and
\* leerJSON / escribirJSON call readFileSync / writeFileSync: once Node
\* dispatches it, it runs to its end before any other callback is run.
Reqs == 1..NReq

EnCurso == {"leido", "descontado", "ventasLeidas"}

\* Turno for a handler that awaited its file calls: any callback may run
TurnoConAwait(r) == r \in Reqs

\* whether Node may run a step of request r's handler now
Turno(r) == \A q \in Reqs \ {r} : pc[q] \notin EnCurso

\* a product as POST /producto stores it, with StockConc units
ProductoConc(ps) == NuevoProducto(ps, <<"a", " ">>, 16, 2 * StockConc)

InitConc ==
    /\ productos \in {<<ProductoConc(<<>>)>>,
                      <<ProductoConc(<<>>), ProductoConc(<<ProductoConc(<<>>)>>)>>}
    /\ ventas = <<>>
    /\ res = Resp("inicio", 0)
    /\ nPut = 0
    /\ pc = [r \in Reqs |-> "espera"]
    /\ marco = [r \in Reqs |-> [productos |-> <<>>, detalle |-> <<>>, ventas |-> <<>>]]

\* lines 214-256: validate, leerJSON(DB_PRODUCTOS), check every item, total
VentaLeer(r, items) ==
    LET v == Verificar(productos, items) IN
    /\ pc[r] = "espera"
    /\ Turno(r)
    /\ IF ~Validar(items)
       THEN /\ res' = RespVenta(400, 0, 0)
            /\ pc' = [pc EXCEPT ![r] = "fin"]
            /\ UNCHANGED marco
       ELSE IF v.status # 200
       THEN /\ res' = RespVenta(v.status, v.id, Len(v.detalle))
            /\ pc' = [pc EXCEPT ![r] = "fin"]
            /\ UNCHANGED marco
       ELSE /\ marco' = [marco EXCEPT ![r].productos = productos,
                                      ![r].detalle = v.detalle]
            /\ pc' = [pc EXCEPT ![r] = "leido"]
            /\ UNCHANGED res
    /\ UNCHANGED <<productos, ventas, nPut>>

\* lines 258-263: decrement the handler's own copy, escribirJSON(DB_PRODUCTOS)
VentaDescontar(r) ==
    /\ pc[r] = "leido"
    /\ Turno(r)
    /\ productos' = Descontar(marco[r].productos, marco[r].detalle)
    /\ pc' = [pc EXCEPT ![r] = "descontado"]
    /\ UNCHANGED <<ventas, res, nPut, marco>>

\* line 266: leerJSON(DB_VENTAS)
VentaLeerVentas(r) ==
    /\ pc[r] = "descontado"
    /\ Turno(r)
    /\ marco' = [marco EXCEPT ![r].ventas = ventas]
    /\ pc' = [pc EXCEPT ![r] = "ventasLeidas"]
    /\ UNCHANGED <<productos, ventas, res, nPut>>

\* lines 267-281: push, escribirJSON(DB_VENTAS), respond 201
VentaRegistrar(r) ==
    /\ pc[r] = "ventasLeidas"
    /\ Turno(r)
    /\ ventas' = Append(marco[r].ventas, NuevaVenta(marco[r].detalle))
    /\ res' = RespVenta(201, 0, Len(marco[r].detalle))
    /\ pc' = [pc EXCEPT ![r] = "fin"]
    /\ UNCHANGED <<productos, nPut, marco>>

NextConc ==
    \/ \E r \in Reqs, items \in CarritosDeUno : VentaLeer(r, items)
    \/ \E r \in Reqs : VentaDescontar(r)
    \/ \E r \in Reqs : VentaLeerVentas(r)
    \/ \E r \in Reqs : VentaRegistrar(r)

SpecConc == InitConc /\ [][NextConc]_vars

\* ========================================================================
\* Properties
\* ========================================================================
\* what a cart asks of product id in all: the sum over its lines
RECURSIVE Pedido(_, _)
Pedido(items, id) ==
    IF items = <<>> THEN 0
    ELSE (IF items[1].id_producto = id THEN items[1].cantidad ELSE 0)
         + Pedido(Tail(items), id)

\* the cart line names no stored active product
Falta(ps, it) ==
    ~\E k \in 1..Len(ps) : ps[k].id_producto = it.id_producto /\ ps[k].activo

\* the cart line asks for more than the stock of the active product it names
Excede(ps, it) ==
    \E k \in 1..Len(ps) :
        ps[k].id_producto = it.id_producto /\ ps[k].activo /\ ps[k].stock < it.cantidad

AlgunoFalla(ps, items) ==
    \E i \in 1..Len(items) : Falta(ps, items[i]) \/ Excede(ps, items[i])

\* y is x rounded to 2 decimals
EsRedondeo(y, x) == y % 10 = 0 /\ 2 * y <= 2 * x + 10 /\ 2 * y >= 2 * x - 10

RECURSIVE SumaDe(_, _)
SumaDe(f, n) == IF n = 0 THEN 0 ELSE f[n] + SumaDe(f, n - 1)

\* C1: record-sale is all-or-nothing.  For every cart and every reachable
\* store, if some item names a missing or inactive product or asks for more
\* than its stock, the call leaves every product and the sales collection as
\* they were, also when earlier items passed; and a well-formed cart whose
\* products could be read is answered 404 or 409.
C1_TodoONada ==
    \A items \in Carritos, f \in Fallas :
        \A o \in {Venta(productos, ventas, items, f)} :
            AlgunoFalla(productos, items) =>
                /\ o.productos = productos
                /\ o.ventas = ventas
                /\ (Validar(items) /\ f # "leerProductos") => o.res.status \in {404, 409}

\* a sale was rejected for stock at its second item, after the first one passed
C1_Testigo ==
    /\ res.op = "POST /venta"
    /\ res.status = 409
    /\ res.n = 1
    /\ Len(productos) = 2

\* C2: every stored product has stock >= 0, in every reachable state.
C2_StockNoNegativo ==
    \A k \in 1..Len(productos) : productos[k].stock >= 0

\* C6: in every recorded sale each line's subtotal is quantity times unit
\* price rounded to 2 decimals (exactly quantity * unit price, the price being
\* whole cents), the total is the sum of the subtotals rounded to 2 decimals,
\* and a sale being recorded takes each line's quantity from the cart and its
\* unit price from the product as stored at that moment.
C6_Importes ==
    /\ \A v \in 1..Len(ventas) :
          /\ \A j \in 1..Len(ventas[v].items) :
                LET l == ventas[v].items[j] IN
                /\ EsRedondeo(l.subtotal, l.cantidad * l.precio_unitario)
                /\ l.precio_unitario % 10 = 0
                /\ l.subtotal = l.cantidad * l.precio_unitario
          /\ EsRedondeo(ventas[v].total,
                SumaDe([j \in 1..Len(ventas[v].items) |-> ventas[v].items[j].subtotal],
                       Len(ventas[v].items)))
          /\ ventas[v].total =
                SumaDe([j \in 1..Len(ventas[v].items) |-> ventas[v].items[j].subtotal],
                       Len(ventas[v].items))
    /\ \A items \in Carritos :
          \A o \in {Venta(productos, ventas, items, "ninguna")} :
             o.res.status = 201 =>
                LET ls == o.ventas[Len(o.ventas)].items IN
                /\ Len(ls) = Len(items)
                /\ \A j \in 1..Len(items) :
                      /\ ls[j].cantidad = items[j].cantidad
                      /\ \E k \in 1..Len(productos) :
                            /\ productos[k].id_producto = items[j].id_producto
                            /\ productos[k].activo
                            /\ ls[j].precio_unitario = productos[k].precio

\* a sale of two lines, one of them of quantity 2, has been recorded
C6_Testigo ==
    /\ res.op = "POST /venta"
    /\ res.status = 201
    /\ Len(ventas) = 1
    /\ Len(ventas[1].items) = 2
    /\ ventas[1].items[1].cantidad = 2
    /\ ventas[1].total > 0

\* C9: a record-sale that passes validation and writes the products but
\* cannot read or write the sales collection answers 500, leaves the
\* decremented stocks in the product collection and records no sale.
C9_SinRollback ==
    \A items \in Carritos :
        \A o \in {Venta(productos, ventas, items, "ventas")} :
            (Validar(items) /\ ~AlgunoFalla(productos, items)) =>
                /\ o.res.status = 500
                /\ o.ventas = ventas
                /\ Len(o.productos) = Len(productos)
                /\ \A k \in 1..Len(productos) :
                      o.productos[k] =
                          [productos[k] EXCEPT
                              !.stock = @ - Pedido(items, productos[k].id_producto)]

\* a sale answered 500 after its one item passed; the stock it took is gone
\* and the ledger is empty
C9_Testigo ==
    /\ res.op = "POST /venta"
    /\ res.status = 500
    /\ res.n = 1
    /\ nPut = 0
    /\ ventas = <<>>
    /\ Len(productos) = 1
    /\ productos[1].stock = 1

\* C10: a record-sale succeeds only if, for every product, the quantities of
\* all cart lines naming it sum to at most its stock, and then each product's
\* stock decreases by exactly that sum.
C10_SumaPorProducto ==
    \A items \in Carritos :
        \A o \in {Venta(productos, ventas, items, "ninguna")} :
            o.res.status = 201 =>
                \A k \in 1..Len(productos) :
                    /\ Pedido(items, productos[k].id_producto) <= productos[k].stock
                    /\ o.productos[k].stock =
                           productos[k].stock - Pedido(items, productos[k].id_producto)

IdsDistintos ==
    \A i, j \in 1..Len(productos) :
        i # j => productos[i].id_producto # productos[j].id_producto

\* C4: a successful create-product appends one product whose id is 1 when the
\* collection is empty and max(existing ids) + 1 otherwise; no operation
\* removes a product or changes its id; so ids stay pairwise distinct and an
\* id is never given to a later product, also after a deactivation.
C4_Ids ==
    /\ []IdsDistintos
    /\ [][/\ Len(productos') >= Len(productos)
          /\ \A k \in 1..Len(productos) :
                productos'[k].id_producto = productos[k].id_producto
          /\ (res'.op = "POST /producto" /\ res'.status = 201 /\ res' # res)
                => Len(productos') = Len(productos) + 1
          /\ Len(productos') > Len(productos) =>
                LET nid == productos'[Len(productos')].id_producto IN
                /\ Len(productos') = Len(productos) + 1
                /\ res'.op = "POST /producto" /\ res'.status = 201 /\ res'.id = nid
                /\ productos = <<>> => nid = 1
                /\ productos # <<>> =>
                      /\ \A k \in 1..Len(productos) : productos[k].id_producto < nid
                      /\ \E k \in 1..Len(productos) : productos[k].id_producto = nid - 1
                /\ nid \notin IdsDe(productos)]_vars

\* a product was created after the only earlier one had been deactivated
C4_Testigo ==
    /\ res.op = "POST /producto"
    /\ res.status = 201
    /\ res.id = 2
    /\ Len(productos) = 2
    /\ ~productos[1].activo

\* C7: a successful update-product changes only the supplied fields of the
\* product with that id; every other field, every other product and the
\* sales collection stay as they were; {id, stock: 0} sets stock to 0.
C7_Marco ==
    /\ [](\A id \in IdsIn, n \in Opt(NombresPut), p \in Opt(PreciosPut),
             s \in Opt(StocksPut), a \in Opt(ActivosIn) :
            \A o \in {Put(productos, id, n, p, s, a)} :
               o.res.status = 200 =>
                  /\ Len(o.productos) = Len(productos)
                  /\ \A k \in 1..Len(productos) :
                        IF productos[k].id_producto # id
                        THEN o.productos[k] = productos[k]
                        ELSE /\ o.productos[k].id_producto = id
                             /\ n = <<>> => o.productos[k].nombre = productos[k].nombre
                             /\ p = <<>> => o.productos[k].precio = productos[k].precio
                             /\ s = <<>> => o.productos[k].stock = productos[k].stock
                             /\ a = <<>> => o.productos[k].activo = productos[k].activo
                             /\ s = <<0>> => o.productos[k].stock = 0)
    /\ [][res'.op = "PUT /producto" => ventas' = ventas]_vars

\* an update that carried only a stock of 0 has been applied to a product
\* that still has the name, price and active flag it was created with
C7_Testigo ==
    /\ res.op = "PUT /producto"
    /\ res.status = 200
    /\ res.campos = {"stock"}
    /\ \E k \in 1..Len(productos) :
          /\ productos[k].id_producto = res.id
          /\ productos[k].stock = 0
          /\ productos[k].nombre = <<"a">>
          /\ productos[k].precio = 20
          /\ productos[k].activo

EsPrefijo(a, b) == Len(a) <= Len(b) /\ \A i \in 1..Len(a) : a[i] = b[i]

\* C8: the sales collection is append-only.  Every step leaves the former
\* sales sequence as a prefix of the new one; only a record-sale answered 201
\* changes it, by exactly one sale at the end; update-product and
\* deactivate-product leave every stored sale as it was.
C8_SoloAnexar ==
    /\ [][/\ EsPrefijo(ventas, ventas')
          /\ Len(ventas') <= Len(ventas) + 1
          /\ ventas' # ventas => (res'.op = "POST /venta" /\ res'.status = 201)
          /\ res'.op \in {"PUT /producto", "DELETE /producto"} => ventas' = ventas]_vars
    /\ [](\A items \in Carritos :
            \A o \in {Venta(productos, ventas, items, "ninguna")} :
               o.res.status = 201 =>
                  /\ Len(o.ventas) = Len(ventas) + 1
                  /\ EsPrefijo(ventas, o.ventas))

\* a product was renamed after a sale of it; the sale keeps the old name
C8_Testigo ==
    /\ res.op = "PUT /producto"
    /\ res.status = 200
    /\ "nombre" \in res.campos
    /\ Len(ventas) = 1
    /\ ventas[1].items[1].id_producto = res.id
    /\ \E k \in 1..Len(productos) :
          /\ productos[k].id_producto = res.id
          /\ productos[k].nombre # ventas[1].items[1].nombre

\* the first line of the cart that names product id
PrimeraCon(items, id) ==
    CHOOSE i \in 1..Len(items) :
        /\ items[i].id_producto = id
        /\ \A j \in 1..(i - 1) : items[j].id_producto # id

Contiene(items, id) == \E i \in 1..Len(items) : items[i].id_producto = id

CamposProducto == {"nombre", "precio", "stock", "activo"}

Campo(p, c) ==
    CASE c = "nombre" -> <<"n", p.nombre>>
      [] c = "precio" -> <<"p", p.precio>>
      [] c = "stock"  -> <<"s", p.stock>>
      [] c = "activo" -> <<"a", p.activo>>

\* a successful deactivate-product sets only the active flag of its product
DesactivarSoloMarca ==
    (res'.op = "DELETE /producto" /\ res'.status = 200) =>
        /\ Len(productos') = Len(productos)
        /\ \A k \in 1..Len(productos) :
              IF productos[k].id_producto = res'.id
              THEN productos'[k] = [productos[k] EXCEPT !.activo = FALSE]
              ELSE productos'[k] = productos[k]

InactivoFueraDeLista ==
    \A k \in 1..Len(productos) :
        ~productos[k].activo =>
            \A i \in 1..Len(Activos(productos)) :
                Activos(productos)[i].id_producto # productos[k].id_producto

\* C5 as stated: a deactivated product is absent from the listing; until an
\* update-product supplies active for it, it stays stored with its id, name,
\* price and stock unchanged; and every well-formed record-sale whose cart
\* contains its id is answered 404 with no product changed.
C5_Original ==
    /\ []InactivoFueraDeLista
    /\ [](\A k \in 1..Len(productos), items \in Carritos :
            (~productos[k].activo /\ Validar(items)
                /\ Contiene(items, productos[k].id_producto)) =>
               \A o \in {Venta(productos, ventas, items, "ninguna")} :
                  o.res.status = 404 /\ o.productos = productos)
    /\ [][/\ DesactivarSoloMarca
          /\ \A k \in 1..Len(productos) :
                (/\ ~productos[k].activo
                 /\ ~(/\ res'.op = "PUT /producto" /\ res'.status = 200
                      /\ res'.id = productos[k].id_producto
                      /\ "activo" \in res'.campos)) =>
                   /\ Len(productos') >= k
                   /\ productos'[k] = productos[k]]_vars

\* C5, amended: a deactivated product is absent from the listing and stays
\* stored with its id; each of its name, price, stock and active flag changes
\* only by a successful update-product for that id that supplies that field;
\* every record-sale whose cart contains its id is rejected with no product
\* and no sale changed, with 404 naming that id when the cart is well-formed,
\* the products can be read and no earlier line of the cart is rejected.
C5_Inactivo ==
    /\ []InactivoFueraDeLista
    /\ [](\A k \in 1..Len(productos), items \in Carritos, f \in Fallas :
            (~productos[k].activo /\ Contiene(items, productos[k].id_producto)) =>
               \A o \in {Venta(productos, ventas, items, f)} :
                  /\ o.res.status \in {400, 404, 409, 500}
                  /\ o.productos = productos
                  /\ o.ventas = ventas
                  /\ (/\ Validar(items)
                      /\ f # "leerProductos"
                      /\ \A j \in 1..(PrimeraCon(items, productos[k].id_producto) - 1) :
                            ~Falta(productos, items[j]) /\ ~Excede(productos, items[j]))
                     => (o.res.status = 404 /\ o.res.id = productos[k].id_producto))
    /\ [][/\ DesactivarSoloMarca
          /\ \A k \in 1..Len(productos) :
                ~productos[k].activo =>
                   /\ Len(productos') >= k
                   /\ productos'[k].id_producto = productos[k].id_producto
                   /\ \A c \in CamposProducto :
                         Campo(productos'[k], c) # Campo(productos[k], c) =>
                            /\ res'.op = "PUT /producto"
                            /\ res'.status = 200
                            /\ res'.id = productos[k].id_producto
                            /\ c \in res'.campos]_vars

\* a sale naming a deactivated product that still has stock was answered 404
\* for that product
C5_Testigo ==
    /\ res.op = "POST /venta"
    /\ res.status = 404
    /\ \E k \in 1..Len(productos) :
          /\ productos[k].id_producto = res.id
          /\ ~productos[k].activo
          /\ productos[k].stock > 0

\* units of product id in the recorded sales
RECURSIVE VendidasEn(_, _)
VendidasEn(det, id) ==
    IF det = <<>> THEN 0
    ELSE (IF det[1].id_producto = id THEN det[1].cantidad ELSE 0)
         + VendidasEn(Tail(det), id)

RECURSIVE Vendidas(_, _)
Vendidas(vs, id) ==
    IF vs = <<>> THEN 0 ELSE VendidasEn(vs[1].items, id) + Vendidas(Tail(vs), id)

====
